---- MODULE Spec2Model ----
(***************************************************************************)
(* Zipper (stored-method PKZIP builder for ServiceNow) and its CRC32      *)
(* helper, modelled from Zipper.js and CRC32.js.                           *)
(*                                                                         *)
(* Binary strings are sequences of character codes, one element per       *)
(* character of the JavaScript string.                                     *)
(***************************************************************************)
EXTENDS Integers, Sequences, FiniteSets, TLC

VARIABLES
    files,      \* this.files: sequence of [sys_id, name, data]
    zipDate,    \* this._zipDate: [date, time], or NoDate before the first write
    data,       \* the local `data` of write after line 124; NoArchive outside
                \* such a call's aftermath (no write yet, or an add since)
    prevData,   \* `data` of the write before that one, when no add came between
    result,     \* how the last call ended: [kind, ...]
    sink,       \* calls made to GlideSysAttachment.write, oldest first
    crcArg,     \* argument handed to CRC32.evaluate
    crcOut,     \* value CRC32.evaluate returned for crcArg
    szLen,      \* a data length handed to the size field of _header
    szOut       \* what the size-field code produced for szLen

vars == <<files, zipDate, data, prevData, result, sink, crcArg, crcOut, szLen, szOut>>

(***************************************************************************)
(* JavaScript values reaching the bitwise operators.  A 32-bit operand is *)
(* the signed integer ToInt32 yields, -2^31 .. 2^31-1.                     *)
(***************************************************************************)
\* A Number that is an integer in -2^31 .. 2^31-1.
Int32(n) == [t |-> "int", n |-> n]
\* A non-negative integral Number hi * 2^32 + u, where u is the unsigned
\* reading of the 32 bits of the signed integer lo.
Num(hi, lo) == [t |-> "num", hi |-> hi, lo |-> lo]
\* A String (sequence of character codes).
Str(s) == [t |-> "str", s |-> s]
NaN == [t |-> "nan"]

Digits == 48..57

RECURSIVE DecimalValue(_)
DecimalValue(s) ==
    IF s = <<>> THEN 0
    ELSE 10 * DecimalValue(SubSeq(s, 1, Len(s) - 1)) + (s[Len(s)] - 48)

\* ToNumber applied to a String: the empty string is 0, a string of decimal
\* digits is its value, any other string met here (one that does not begin
\* with white space, a sign, a digit, a dot or "Infinity") is NaN.
ToNumber(s) ==
    IF s = <<>> THEN Int32(0)
    ELSE IF (\A i \in 1..Len(s) : s[i] \in Digits) /\ Len(s) <= 9
         THEN Int32(DecimalValue(s))
         ELSE NaN

\* ToInt32: the low 32 bits of the value, read as signed; NaN becomes 0.
ToInt32(v) ==
    CASE v.t = "int" -> v.n
      [] v.t = "num" -> v.lo
      [] v.t = "nan" -> 0
      [] v.t = "str" -> LET n == ToNumber(v.s)
                        IN  IF n.t = "int" THEN n.n ELSE 0

RECURSIVE Xor32(_, _)
\* a ^ b on 32-bit signed operands
Xor32(a, b) ==
    IF a = 0 THEN b
    ELSE IF b = 0 THEN a
    ELSE IF a = -1 THEN (-1) - b
    ELSE IF b = -1 THEN (-1) - a
    ELSE (((a % 2) + (b % 2)) % 2) + (2 * Xor32(a \div 2, b \div 2))

RECURSIVE Or32(_, _)
\* a | b on 32-bit signed operands
Or32(a, b) ==
    IF a = 0 THEN b
    ELSE IF b = 0 THEN a
    ELSE IF a = -1 \/ b = -1 THEN -1
    ELSE (IF (a % 2) + (b % 2) > 0 THEN 1 ELSE 0) + (2 * Or32(a \div 2, b \div 2))

\* a >>> k for 1 <= k <= 31: the result fits 31 bits
Shr32(a, k) ==
    IF a >= 0 THEN a \div (2^k)
    ELSE (((a + 2147483647) + 1) \div (2^k)) + 2^(31 - k)

\* a >> k (sign-propagating)
Sar32(a, k) == a \div (2^k)

RECURSIVE Shl32(_, _)
\* a << k, wrapping to 32 bits
Shl32(a, k) ==
    IF k = 0 THEN a
    ELSE LET low == IF a >= 1073741824 THEN a - 1073741824
                    ELSE IF a >= 0 THEN a
                    ELSE IF a >= -1073741824 THEN a + 1073741824
                    ELSE (a + 2147483647) + 1
             neg == (a >= 1073741824) \/ (a < 0 /\ a >= -1073741824)
         IN  Shl32(IF neg THEN ((low * 2) - 2147483647) - 1 ELSE low * 2, k - 1)

\* x & 0xFF
LowByte(a) == a % 256

(***************************************************************************)
(* CRC32.js                                                                *)
(***************************************************************************)
\* this.MAGIC_NUMBER = polynomial || 0xEDB88320, built with no argument:
\* 0xEDB88320 = 2^32 - 306674912.
MAGIC_NUMBER == Num(0, -306674912)

RECURSIVE TableEntry(_, _, _)
\* The inner loop of _buildCRCTable: k more rounds on c.
TableEntry(c, polynomial, k) ==
    IF k = 0 THEN c
    ELSE TableEntry(IF c % 2 = 1 THEN Xor32(ToInt32(polynomial), Shr32(c, 1))
                    ELSE Shr32(c, 1),
                    polynomial, k - 1)

_buildCRCTable(polynomial) ==
    [n \in 0..(32 * 8 - 1) |-> TableEntry(n, polynomial, 8)]

_strToByte(str) == [i \in 1..Len(str) |-> str[i] % 256]

RECURSIVE CrcLoopSigned(_, _, _, _)
\* CrcLoop with >> written for >>>: the accumulator keeps its sign bits.
CrcLoopSigned(crc, bytes, i, crcTable) ==
    IF i > Len(bytes) THEN crc
    ELSE CrcLoopSigned(Xor32(Sar32(crc, 8), crcTable[LowByte(Xor32(crc, bytes[i]))]),
                       bytes, i + 1, crcTable)

RECURSIVE CrcLoop(_, _, _, _)
\* The for loop of evaluate from index i (1-based here) on.
CrcLoop(crc, bytes, i, crcTable) ==
    IF i > Len(bytes) THEN crc
    ELSE CrcLoop(Xor32(Shr32(crc, 8), crcTable[LowByte(Xor32(crc, bytes[i]))]),
                 bytes, i + 1, crcTable)

\* this._crc_table once the first evaluate has built it (line 41); the table
\* is a function of MAGIC_NUMBER alone, so every evaluate reads these values.
_crc_table == _buildCRCTable(MAGIC_NUMBER)

\* arg is Str(s) or [t |-> "arr", a |-> bytes]; the result, (crc ^ -1) >>> 0,
\* is a Number in 0 .. 2^32-1.
evaluate(arg) ==
    LET bytes == IF arg.t = "str" THEN _strToByte(arg.s) ELSE arg.a
        crcTable == _crc_table
        crc == CrcLoop(Xor32(0, -1), bytes, 1, crcTable)
    IN  Num(0, Xor32(crc, -1))

(***************************************************************************)
(* The platform around Zipper: the sys_attachment table, the tables and   *)
(* records write can target, and the clock.                                *)
(***************************************************************************)
MaxFiles == 3

\* A file name of L characters, the three letters from code c on in turn.
NameOfLen(L, c) == [i \in 1..L |-> c + (i % 3)]

\* sys_attachment: SysID -> file_name and the bytes getBytes returns (Java
\* bytes, -128..127).
Attachments ==
    [id \in {"a1", "a2", "a3"} |->
        CASE id = "a1" -> [file_name |-> <<97, 46, 116, 120, 116>>, bytes |-> <<104, 105>>]
          [] id = "a2" -> [file_name |-> NameOfLen(300, 98), bytes |-> <<>>]
          [] id = "a3" -> [file_name |-> NameOfLen(255, 65), bytes |-> <<-1, 0>>]]

AttachmentIds == DOMAIN Attachments \cup {"missing"}

\* gs.tableExists
Tables == {"incident"}
\* GlideStringUtil.isEligibleSysID
EligibleSysIDs == {"rec1", "rec2"}
\* the records GlideRecord(table).get finds
Records == [t \in Tables |-> {"rec1"}]

TableArgs == {"", "incident", "no_table"}
RecordArgs == {"", "not a sys_id", "rec1", "rec2"}
FilenameArgs == {"", "Archive"}

\* What new Date() can read: getFullYear, getMonth (0-11), getDate,
\* getHours, getMinutes, getSeconds.
Dates ==
    { [year |-> 2024, month |-> 8, day |-> 27, hours |-> 1, minutes |-> 48, seconds |-> 30],
      [year |-> 2107, month |-> 11, day |-> 31, hours |-> 23, minutes |-> 59, seconds |-> 59] }

\* gs.nil: null, undefined and the empty string, all written "" here
nil(x) == x = ""

(***************************************************************************)
(* Zipper.js                                                               *)
(***************************************************************************)
MAX_FILENAME_LENGTH == 256
MIME_TYPE == "application/zip"
PKZIP_VERSION == <<20, 0>>

NoDate == [date |-> -1, time |-> -1]
NoArchive == <<-1>>
NoResult == [kind |-> "none"]
Throw(msg) == [kind |-> "throw", msg |-> msg]
Return(v) == [kind |-> "return", value |-> v]

\* String.prototype.substring(0, end)
substring(s, end) == SubSeq(s, 1, IF end < Len(s) THEN end ELSE Len(s))

_binToString(array) == [j \in 1..Len(array) |-> array[j] % 256]

RECURSIVE IntToBytesLoop(_, _, _, _)
\* the for loop of _intToBytes; value has been through ToInt32
IntToBytesLoop(value, i, byteCount, bytes) ==
    IF i >= byteCount THEN bytes
    ELSE IntToBytesLoop(Sar32(value, 8), i + 1, byteCount,
                        Append(bytes, LowByte(value)))

_intToBytes(value, byteCount) ==
    _binToString(IntToBytesLoop(ToInt32(value), 0, byteCount, <<>>))

_getZipTime(date) ==
    LET zipSeconds == date.seconds \div 2
    IN  Or32(Or32(Shl32(date.hours, 11), Shl32(date.minutes, 5)), zipSeconds)

_getZipDate(date) ==
    LET month == date.month + 1
        zipYear == date.year - 1980
    IN  Or32(Or32(Shl32(zipYear, 9), Shl32(month, 5)), date.day)

\* _header reads this._zipDate, passed here as zd
_header(file, zd) ==
    <<80, 75, 3, 4>>
    \o PKZIP_VERSION
    \o <<0, 0>>
    \o <<0, 0>>
    \o _intToBytes(Int32(zd.time), 2)
    \o _intToBytes(Int32(zd.date), 2)
    \o _intToBytes(evaluate(Str(file.data)), 4)
    \o _intToBytes(Int32(Len(file.data)), 4)
    \o _intToBytes(Int32(Len(file.data)), 4)
    \o _intToBytes(Int32(Len(file.name)), 2)
    \o <<0, 0>>
    \o file.name

\* _directory writing 0 for the compressed size, as if the data were absent.
DirectoryNoCompressedSize(file, offset, zd) ==
    <<80, 75, 1, 2>>
    \o PKZIP_VERSION
    \o PKZIP_VERSION
    \o <<0, 0>>
    \o <<0, 0>>
    \o _intToBytes(Int32(zd.time), 2)
    \o _intToBytes(Int32(zd.date), 2)
    \o _intToBytes(evaluate(Str(file.data)), 4)
    \o _intToBytes(Int32(0), 4)
    \o _intToBytes(Int32(Len(file.data)), 4)
    \o _intToBytes(Int32(Len(file.name)), 2)
    \o <<0, 0>>
    \o <<0, 0>>
    \o <<0, 0>>
    \o <<0, 0>>
    \o <<0, 0, 0, 0>>
    \o _intToBytes(offset, 4)
    \o file.name

\* _directory reads this._zipDate, passed here as zd; offset is a JS value
_directory(file, offset, zd) ==
    <<80, 75, 1, 2>>
    \o PKZIP_VERSION
    \o PKZIP_VERSION
    \o <<0, 0>>
    \o <<0, 0>>
    \o _intToBytes(Int32(zd.time), 2)
    \o _intToBytes(Int32(zd.date), 2)
    \o _intToBytes(evaluate(Str(file.data)), 4)
    \o _intToBytes(Int32(Len(file.data)), 4)
    \o _intToBytes(Int32(Len(file.data)), 4)
    \o _intToBytes(Int32(Len(file.name)), 2)
    \o <<0, 0>>
    \o <<0, 0>>
    \o <<0, 0>>
    \o <<0, 0>>
    \o <<0, 0, 0, 0>>
    \o _intToBytes(offset, 4)
    \o file.name

\* _eoDirectory without its last line, the comment length.
EoDirectoryNoComment(entries, size, offset) ==
    <<80, 75, 5, 6>>
    \o <<0, 0>>
    \o <<0, 0>>
    \o _intToBytes(entries, 2)
    \o _intToBytes(entries, 2)
    \o _intToBytes(size, 4)
    \o _intToBytes(offset, 4)

\* entries, size and offset are JS values
_eoDirectory(entries, size, offset) ==
    <<80, 75, 5, 6>>
    \o <<0, 0>>
    \o <<0, 0>>
    \o _intToBytes(entries, 2)
    \o _intToBytes(entries, 2)
    \o _intToBytes(size, 4)
    \o _intToBytes(offset, 4)
    \o <<0, 0>>

RECURSIVE WriteLoopOwnClock(_, _, _, _, _, _)
\* WriteLoop reading the clock anew for each file: the time moves on by one
\* two-second unit per entry.
WriteLoopOwnClock(i, d, directory, offset, fs, zd) ==
    IF i > Len(fs) THEN [data |-> d, directory |-> directory, offset |-> offset]
    ELSE LET file == fs[i]
             d1 == (d \o _header(file, zd)) \o file.data
             directory1 == directory \o _directory(file, Int32(offset), zd)
         IN  WriteLoopOwnClock(i + 1, d1, directory1, offset + Len(d1), fs,
                               [zd EXCEPT !.time = @ + 1])

RECURSIVE WriteLoop(_, _, _, _, _, _)
\* The for loop of write (lines 111-120) from index i (1-based here) on;
\* yields the locals data, directory and offset when the loop ends.
WriteLoop(i, d, directory, offset, fs, zd) ==
    IF i > Len(fs) THEN [data |-> d, directory |-> directory, offset |-> offset]
    ELSE LET file == fs[i]
             d1 == (d \o _header(file, zd)) \o file.data
             directory1 == directory \o _directory(file, Int32(offset), zd)
         IN  WriteLoop(i + 1, d1, directory1, offset + Len(d1), fs, zd)

\* The archive write has in `data` after line 124.
Assemble(fs, zd) ==
    LET l == WriteLoop(1, <<>>, <<>>, 0, fs, zd)
    IN  (l.data \o l.directory)
        \o _eoDirectory(Int32(Len(fs)), Int32(Len(l.directory)), Str(l.directory))

\* FileOf cutting the name at MAX_FILENAME_LENGTH, not one short of it.
FileOfOffByOne(id) ==
    [sys_id |-> id,
     name |-> substring(Attachments[id].file_name, MAX_FILENAME_LENGTH),
     data |-> _binToString(Attachments[id].bytes)]

\* The file object add builds for an attachment record (lines 64-67).
FileOf(id) ==
    [sys_id |-> id,
     name |-> substring(Attachments[id].file_name, MAX_FILENAME_LENGTH - 1),
     data |-> _binToString(Attachments[id].bytes)]

\* Add with unshift for push: the new file goes first.
AddFirst(id) ==
    /\ id \in DOMAIN Attachments
    /\ Len(files) < MaxFiles
    /\ files' = <<FileOf(id)>> \o files
    /\ result' = Return("undefined")
    /\ data' = NoArchive
    /\ prevData' = NoArchive
    /\ UNCHANGED <<zipDate, sink, crcArg, crcOut, szLen, szOut>>

\* add(attachment_id), the record exists
Add(id) ==
    /\ id \in DOMAIN Attachments
    /\ Len(files) < MaxFiles
    /\ files' = Append(files, FileOf(id))
    /\ result' = Return("undefined")
    /\ data' = NoArchive
    /\ prevData' = NoArchive
    /\ UNCHANGED <<zipDate, sink, crcArg, crcOut, szLen, szOut>>

\* add(attachment_id), no such record: line 61 throws
AddMissing(id) ==
    /\ id \notin DOMAIN Attachments
    /\ result' = Throw("No record found on the sys_attachment table with the provided SysID")
    /\ UNCHANGED <<files, zipDate, data, prevData, sink, crcArg, crcOut, szLen, szOut>>

\* write(table, record, filename) stopped by one of the checks of lines 82-84
WriteInvalid(table, record, filename) ==
    /\ \/ /\ nil(table) \/ table \notin Tables
          /\ result' = Throw("Invalid parameter: the 'table' parameter must be an existing table name")
       \/ /\ ~(nil(table) \/ table \notin Tables)
          /\ nil(record) \/ record \notin EligibleSysIDs
          /\ result' = Throw("Invalid parameter: the 'record' parameter must be a valid record SysID")
       \/ /\ ~(nil(table) \/ table \notin Tables)
          /\ ~(nil(record) \/ record \notin EligibleSysIDs)
          /\ nil(filename)
          /\ result' = Throw("Invalid parameter: the 'filename' parameter is not defined")
    /\ UNCHANGED <<files, zipDate, data, prevData, sink, crcArg, crcOut, szLen, szOut>>

\* Write emptying this.files once the archive is assembled.
WriteThenClear(table, record, filename, now) ==
    /\ ~(nil(table) \/ table \notin Tables)
    /\ ~(nil(record) \/ record \notin EligibleSysIDs)
    /\ ~nil(filename)
    /\ LET zd == [date |-> _getZipDate(now), time |-> _getZipTime(now)]
           exists == record \in Records[table]
       IN  /\ zipDate' = zd
           /\ prevData' = data
           /\ result' = IF ~exists
                        THEN Throw("No record with SysID found on table")
                        ELSE Throw("Unsupported Platform")
           /\ data' = Assemble(files, zd)
    /\ files' = <<>>
    /\ UNCHANGED <<sink, crcArg, crcOut, szLen, szOut>>

\* write(table, record, filename) past the checks: lines 87-136, with `now`
\* the value of new Date().  Line 87 changes only the local filename, which
\* no later line reads: the call that would hand it to the platform
\* (line 134) is commented out, and line 136 throws in its place.
Write(table, record, filename, now) ==
    /\ ~(nil(table) \/ table \notin Tables)
    /\ ~(nil(record) \/ record \notin EligibleSysIDs)
    /\ ~nil(filename)
    /\ LET zd == [date |-> _getZipDate(now), time |-> _getZipTime(now)]
           exists == record \in Records[table]
       IN  /\ zipDate' = zd
           /\ prevData' = data
           /\ result' = IF ~exists
                        THEN Throw("No record with SysID found on table")
                        ELSE Throw("Unsupported Platform")
           /\ data' = Assemble(files, zd)
    /\ UNCHANGED <<files, sink, crcArg, crcOut, szLen, szOut>>

Init ==
    /\ files = <<>>
    /\ zipDate = NoDate
    /\ data = NoArchive
    /\ prevData = NoArchive
    /\ result = NoResult
    /\ sink = <<>>
    /\ crcArg = Str(<<>>)
    /\ crcOut = NaN
    /\ szLen = NaN
    /\ szOut = <<>>

Next ==
    \/ \E id \in AttachmentIds : Add(id)
    \/ \E id \in AttachmentIds : AddMissing(id)
    \/ \E t \in TableArgs, r \in RecordArgs, f \in FilenameArgs : WriteInvalid(t, r, f)
    \/ \E t \in TableArgs, r \in RecordArgs, f \in FilenameArgs, now \in Dates :
          Write(t, r, f, now)

Spec == Init /\ [][Next]_vars

(***************************************************************************)
(* CRC32.evaluate on its own: one call on an array of bytes or a string.   *)
(***************************************************************************)
MaxLen == 3
ByteSamples == {0, 1, 104, 105, 128, 255}
\* character codes, some of them wider than 8 bits
CharSamples == {0, 104, 255, 256, 360, 65535}

SeqsUpTo(S, n) == UNION { [1..k -> S] : k \in 0..n }

CrcArgs ==
    { [t |-> "arr", a |-> b] : b \in SeqsUpTo(ByteSamples, MaxLen) }
    \cup { Str(c) : c \in SeqsUpTo(CharSamples, MaxLen) }

InitCRC ==
    /\ crcArg \in CrcArgs
    /\ crcOut = NaN
    /\ files = <<>>
    /\ zipDate = NoDate
    /\ data = NoArchive
    /\ prevData = NoArchive
    /\ result = NoResult
    /\ sink = <<>>
    /\ szLen = NaN
    /\ szOut = <<>>

\* new CRC32().evaluate(crcArg)
Evaluate ==
    /\ crcOut = NaN
    /\ crcOut' = evaluate(crcArg)
    /\ UNCHANGED <<files, zipDate, data, prevData, result, sink, crcArg, szLen, szOut>>

NextCRC == Evaluate

SpecCRC == InitCRC /\ [][NextCRC]_vars

(***************************************************************************)
(* The size fields of _header (lines 169-171) on their own, for data      *)
(* lengths up to and beyond 32 bits.                                       *)
(***************************************************************************)
MaxSmallLen == 60

\* lengths n, 2^32 - 1 and 2^32 + n, for n in 0..MaxSmallLen
SizeLens ==
    { Int32(n) : n \in 0..MaxSmallLen }
    \cup { Num(0, -1) }
    \cup { Num(1, n) : n \in 0..MaxSmallLen }

InitSize ==
    /\ szLen \in SizeLens
    /\ szOut = <<>>
    /\ files = <<>>
    /\ zipDate = NoDate
    /\ data = NoArchive
    /\ prevData = NoArchive
    /\ result = NoResult
    /\ sink = <<>>
    /\ crcArg = Str(<<>>)
    /\ crcOut = NaN

\* lines 170-171 for a file whose data.length is szLen: the two size fields
\* are appended and nothing is thrown
HeaderSizes ==
    /\ szOut = <<>>
    /\ szOut' = <<[threw |-> FALSE,
                   compressed |-> _intToBytes(szLen, 4),
                   uncompressed |-> _intToBytes(szLen, 4)]>>
    /\ UNCHANGED <<files, zipDate, data, prevData, result, sink, crcArg, crcOut, szLen>>

NextSize == HeaderSizes

SpecSize == InitSize /\ [][NextSize]_vars

(***************************************************************************)
(* Reading an archive back: where each record lies, computed from the     *)
(* lengths of the names and payloads in this.files, and the fields of the *)
(* three PKZIP record types.                                               *)
(***************************************************************************)
LocalSig == <<80, 75, 3, 4>>
CentralSig == <<80, 75, 1, 2>>
EocdSig == <<80, 75, 5, 6>>

Assembled == data # NoArchive

\* the n characters of d that follow byte position pos (0-based)
Field(d, pos, n) == SubSeq(d, pos + 1, pos + n)

RECURSIVE LEValue(_)
\* the number a little-endian field stands for
LEValue(b) == IF b = <<>> THEN 0 ELSE b[1] + (256 * LEValue(Tail(b)))

\* the two bytes of the low 16 bits of a non-negative n, low byte first
LE16(n) == <<n % 256, (n \div 256) % 256>>

BlockLen(f) == 30 + Len(f.name) + Len(f.data)
RecordLen(f) == 46 + Len(f.name)

RECURSIVE SumLen(_, _, _)
\* BlockLen (central = FALSE) or RecordLen (central = TRUE) of fs[1..n], summed
SumLen(fs, n, central) ==
    IF n = 0 THEN 0
    ELSE (IF central THEN RecordLen(fs[n]) ELSE BlockLen(fs[n])) + SumLen(fs, n - 1, central)

\* byte position of entry i's local header, of the central directory, of
\* entry i's central record and of the end record, in an archive of fs
HeaderPos(fs, i) == SumLen(fs, i - 1, FALSE)
CentralStart(fs) == SumLen(fs, Len(fs), FALSE)
RecordPos(fs, i) == CentralStart(fs) + SumLen(fs, i - 1, TRUE)
EocdPos(fs) == CentralStart(fs) + SumLen(fs, Len(fs), TRUE)

(***************************************************************************)
(* C1.  Offset invariant: in every assembled archive the local-header-    *)
(* offset field of entry i's central directory record (4 bytes at +42)    *)
(* is the byte position of entry i's local file header signature, the     *)
(* summed length of the header+data blocks of the entries before it.      *)
(***************************************************************************)
C1_OffsetInvariant ==
    Assembled =>
        \A i \in 1..Len(files) :
            /\ Field(data, HeaderPos(files, i), 4) = LocalSig
            /\ LEValue(Field(data, RecordPos(files, i) + 42, 4)) = HeaderPos(files, i)

(***************************************************************************)
(* C2.  EOCD invariant: the end record's central-directory offset field   *)
(* (+16) is the total size of the header+data blocks, its size field      *)
(* (+12) is the length of the central directory, and offset + size is     *)
(* the archive length less 22.                                             *)
(***************************************************************************)
C2_EocdInvariant ==
    Assembled =>
        LET e == EocdPos(files)
            start == LEValue(Field(data, e + 16, 4))
            size == LEValue(Field(data, e + 12, 4))
        IN  /\ start = CentralStart(files)
            /\ size = e - CentralStart(files)
            /\ start + size = Len(data) - 22

(***************************************************************************)
(* C3.  A write whose table exists, whose record is an eligible SysID     *)
(* present on the table and whose filename is not empty ends without an   *)
(* error: it hands the archive to the attachment sink exactly once, as    *)
(* application/zip, and returns the SysID of the attachment.               *)
(***************************************************************************)
C3_WriteCompletes ==
    [][\A t \in TableArgs, r \in RecordArgs, f \in FilenameArgs, now \in Dates :
          (Write(t, r, f, now) /\ r \in Records[t]) =>
              /\ result'.kind = "return"
              /\ Len(sink') = Len(sink) + 1
              /\ sink'[Len(sink')].mime = MIME_TYPE
              /\ sink'[Len(sink')].data = data']_vars

(***************************************************************************)
(* C5.  With no entry added, the archive write assembles is the 22-byte   *)
(* end record alone: 50 4B 05 06 and eighteen zero bytes.                  *)
(***************************************************************************)
C5_EmptyArchive ==
    (Assembled /\ files = <<>>) =>
        data = EocdSig \o [k \in 1..18 |-> 0]

C5_Witness == Assembled /\ files = <<>> /\ Len(data) = 22

TimeBytes(fs) ==
    UNION { (HeaderPos(fs, i) + 11)..(HeaderPos(fs, i) + 14) : i \in 1..Len(fs) }
    \cup UNION { (RecordPos(fs, i) + 13)..(RecordPos(fs, i) + 16) : i \in 1..Len(fs) }

\* d with its time and date bytes blanked
Timeless(d, fs) ==
    LET t == TimeBytes(fs) IN [k \in 1..Len(d) |-> IF k \in t THEN 0 ELSE d[k]]

\* a step to the end of a write that assembled an archive: it threw at
\* line 130 or at line 136
WriteAssembled ==
    result' \in {Throw("No record with SysID found on table"), Throw("Unsupported Platform")}

C7_Idempotent ==
    [][WriteAssembled =>
          /\ files' = files
          /\ Assembled => Timeless(data', files') = Timeless(data, files)]_vars

C7_Witness ==
    /\ Assembled
    /\ prevData # NoArchive
    /\ prevData # data
    /\ Len(files) >= 2

(***************************************************************************)
(* C9.  In one write every local header and every central record carries  *)
(* the same 16-bit DOS time and date, those of the one timestamp the call *)
(* captured.                                                               *)
(***************************************************************************)
C9_OneTimestamp ==
    Assembled =>
        \A i \in 1..Len(files) :
            /\ Field(data, HeaderPos(files, i) + 10, 2) = LE16(zipDate.time)
            /\ Field(data, HeaderPos(files, i) + 12, 2) = LE16(zipDate.date)
            /\ Field(data, RecordPos(files, i) + 12, 2) = LE16(zipDate.time)
            /\ Field(data, RecordPos(files, i) + 14, 2) = LE16(zipDate.date)

C9_Witness ==
    /\ Assembled
    /\ Len(files) >= 3
    /\ zipDate.time > 0

(***************************************************************************)
(* C10.  Layout: the archive is one local header + data block per entry   *)
(* in add order, then one central record per entry in the same order,     *)
(* then one end record whose two count fields are the number of entries;  *)
(* add appends at the end of the list and nothing else changes it.        *)
(***************************************************************************)
RECURSIVE ReadLocals(_, _, _)
\* the <<name, payload>> pairs of the local blocks met from pos on, and the
\* position after the last of them
ReadLocals(d, pos, acc) ==
    IF Field(d, pos, 4) # LocalSig THEN [entries |-> acc, pos |-> pos]
    ELSE LET n == LEValue(Field(d, pos + 26, 2))
             size == LEValue(Field(d, pos + 18, 4))
         IN  ReadLocals(d, pos + 30 + n + size,
                        Append(acc, <<Field(d, pos + 30, n), Field(d, pos + 30 + n, size)>>))

RECURSIVE ReadCentral(_, _, _)
\* the names of the central records met from pos on, and the position after
ReadCentral(d, pos, acc) ==
    IF Field(d, pos, 4) # CentralSig THEN [names |-> acc, pos |-> pos]
    ELSE LET n == LEValue(Field(d, pos + 28, 2))
         IN  ReadCentral(d, pos + 46 + n, Append(acc, Field(d, pos + 46, n)))

Layout(d, fs) ==
    LET locals == ReadLocals(d, 0, <<>>)
        central == ReadCentral(d, locals.pos, <<>>)
        e == central.pos
    IN  /\ locals.entries = [i \in 1..Len(fs) |-> <<fs[i].name, fs[i].data>>]
        /\ central.names = [i \in 1..Len(fs) |-> fs[i].name]
        /\ Field(d, e, 4) = EocdSig
        /\ LEValue(Field(d, e + 8, 2)) = Len(fs)
        /\ LEValue(Field(d, e + 10, 2)) = Len(fs)
        /\ e + 22 = Len(d)

C10_Layout ==
    [][/\ files' # files =>
            /\ Len(files') = Len(files) + 1
            /\ SubSeq(files', 1, Len(files)) = files
       /\ data' # NoArchive => Layout(data', files')]_vars

C10_Witness ==
    /\ Assembled
    /\ Len(files) >= 3
    /\ files[1] # files[2]
    /\ files[2] # files[3]
    /\ Layout(data, files)

(***************************************************************************)
(* C4.  For a byte sequence b, given as an array or as a string whose     *)
(* character codes are narrowed to 8 bits, evaluate returns the unsigned  *)
(* 32-bit reflected CRC-32 of b for the polynomial 0xEDB88320: register   *)
(* all ones, the bits of each byte fed in low bit first, the register     *)
(* complemented at the end; 0x00000000 for the empty sequence and         *)
(* 0xD202EF8D for [0x00].                                                  *)
(***************************************************************************)
\* the 32 bits of 0xEDB88320 = 0xEDB8 * 2^16 + 0x8320, low bit first
PolyBits ==
    [i \in 1..32 |-> IF i <= 16 THEN (33568 \div (2^(i - 1))) % 2
                     ELSE (60856 \div (2^(i - 17))) % 2]

\* one step of the bit-serial register: the input bit meets the low bit, the
\* register moves one place down, and the polynomial is added when they differ
BitStep(reg, bit) ==
    LET fb == (reg[1] + bit) % 2
        sh == Tail(reg) \o <<0>>
    IN  IF fb = 1 THEN [j \in 1..32 |-> (sh[j] + PolyBits[j]) % 2] \o <<>> ELSE sh

RECURSIVE ByteSteps(_, _, _)
\* the register after bits k..7 of byte have been fed in, low bit first
ByteSteps(reg, byte, k) ==
    IF k > 7 THEN reg
    ELSE ByteSteps(BitStep(reg, (byte \div (2^k)) % 2), byte, k + 1)

RECURSIVE RefReg(_, _)
\* the register after the first n bytes, starting from all ones
RefReg(bytes, n) ==
    IF n = 0 THEN [j \in 1..32 |-> 1] \o <<>>
    ELSE ByteSteps(RefReg(bytes, n - 1), bytes[n], 0)

\* the reflected CRC-32 of bytes, as 32 bits, low bit first
RefCrc(bytes) ==
    LET reg == RefReg(bytes, Len(bytes))
    IN  [j \in 1..32 |-> 1 - reg[j]]

\* the 32 bits of a Number in 0 .. 2^32-1, low bit first
UnsignedBits(v) ==
    [j \in 1..32 |-> IF j = 32 THEN (IF v.lo < 0 THEN 1 ELSE 0)
                     ELSE (v.lo \div (2^(j - 1))) % 2]

\* the bytes crcArg stands for
ArgBytes ==
    IF crcArg.t = "str" THEN [i \in 1..Len(crcArg.s) |-> crcArg.s[i] % 256]
    ELSE crcArg.a

C4_StandardCrc ==
    crcOut # NaN =>
        /\ crcOut.t = "num"
        /\ crcOut.hi = 0
        /\ UnsignedBits(crcOut) = RefCrc(ArgBytes)
        /\ ArgBytes = <<>> => crcOut.lo = 0
        /\ ArgBytes = <<0>> =>
             /\ (crcOut.lo \div 65536) % 65536 = 53762
             /\ crcOut.lo % 65536 = 61325

C4_Witness ==
    /\ crcOut # NaN
    /\ crcArg.t = "str"
    /\ Len(crcArg.s) >= 2
    /\ crcArg.s[1] > 255
    /\ crcOut.lo < 0

(***************************************************************************)
(* C8.  A data length that does not fit the unsigned 32-bit size field    *)
(* makes the header code signal an error; no size field is ever emitted   *)
(* holding a value other than the real data length.                        *)
(***************************************************************************)
\* the Number v, a data length, is more than 2^32 - 1
ExceedsField(v) == v.t = "num" /\ v.hi > 0

\* the four little-endian bytes of a length that fits the field
FieldOf(v) ==
    IF v.t = "int" THEN <<v.n % 256, (v.n \div 256) % 256,
                          (v.n \div 65536) % 256, (v.n \div 16777216) % 256>>
    ELSE <<v.lo % 256, (v.lo \div 256) % 256,
           (v.lo \div 65536) % 256, (v.lo \div 16777216) % 256>>

C11_CentralMirrorsLocal ==
    Assembled =>
        \A i \in 1..Len(files) :
            LET h == HeaderPos(files, i)
                r == RecordPos(files, i)
                n == LEValue(Field(data, h + 26, 2))
            IN  /\ Field(data, h, 4) = LocalSig
                /\ Field(data, r, 4) = CentralSig
                /\ Field(data, r + 10, 2) = <<0, 0>>
                /\ Field(data, r + 10, 2) = Field(data, h + 8, 2)
                /\ Field(data, r + 12, 2) = Field(data, h + 10, 2)
                /\ Field(data, r + 14, 2) = Field(data, h + 12, 2)
                /\ Field(data, r + 16, 4) = Field(data, h + 14, 4)
                /\ Field(data, r + 20, 4) = Field(data, h + 18, 4)
                /\ Field(data, r + 24, 4) = Field(data, h + 22, 4)
                /\ Field(data, r + 28, 2) = Field(data, h + 26, 2)
                /\ Field(data, r + 46, n) = Field(data, h + 30, n)
                /\ LEValue(Field(data, h + 18, 4)) = Len(files[i].data)
                /\ LEValue(Field(data, h + 22, 4)) = Len(files[i].data)
                /\ LEValue(Field(data, r + 20, 4)) = Len(files[i].data)
                /\ LEValue(Field(data, r + 24, 4)) = Len(files[i].data)

\* an archive of two entries or more, one with data whose CRC-32 is not 0 and
\* one with a name of 255 characters
C11_Witness ==
    /\ Assembled
    /\ Len(files) >= 2
    /\ \E i \in 1..Len(files) :
          /\ Len(files[i].data) = 2
          /\ Field(data, RecordPos(files, i) + 16, 4) # <<0, 0, 0, 0>>
          /\ Field(data, RecordPos(files, i) + 20, 4) = <<2, 0, 0, 0>>
    /\ \E i \in 1..Len(files) : Len(files[i].name) = 255

====
